---- MODULE Spec2Model ----
(***************************************************************************)
(* Model of fuze (src/src/main.rs): a same-host broken-link checker.       *)
(*                                                                         *)
(* Strings are sequences of lexemes.  A lexeme is either a run of scheme / *)
(* host characters (a member of Name), or one of the characters the URL    *)
(* parser gives a meaning to (":", "/", "#", " "), or the escape "%20".    *)
(* Concatenation of strings is concatenation of sequences, so format!()    *)
(* and starts_with() are modelled by what they do on the text.             *)
(***************************************************************************)
EXTENDS Integers, Sequences, FiniteSets, TLC

\* ------------------------------------------------------------------------
\* Bounds
\* ------------------------------------------------------------------------
MaxTail == 3        \* longest free tail of an href given to normalize_url
MaxLinks == 2       \* most a[href] elements in one fetched document

\* ------------------------------------------------------------------------
\* Text
\* ------------------------------------------------------------------------
Name == {"https", "mailto", "a.test", "o.test", "b", "c", "d"}

starts_with(s, c) == Len(s) >= 1 /\ s[1] = c

RECURSIVE FindFrom(_, _, _, _)
\* Index of the first lexeme of s at or after i whose membership in S is
\* member, Len(s)+1 when there is none.
FindFrom(s, S, member, i) ==
    IF i > Len(s) \/ (s[i] \in S) = member THEN i
    ELSE FindFrom(s, S, member, i + 1)

\* Index of the first lexeme of s that lies in S.
FirstIn(s, S) == FindFrom(s, S, TRUE, 1)

\* Index of the first lexeme of s that lies outside S.
FirstNotIn(s, S) == FindFrom(s, S, FALSE, 1)

RECURSIVE LastNotIn(_, _)
\* Index of the last lexeme of s that lies outside S, 0 when there is none.
LastNotIn(s, S) ==
    IF s = <<>> \/ s[Len(s)] \notin S THEN Len(s)
    ELSE LastNotIn(SubSeq(s, 1, Len(s) - 1), S)

From(s, i) == SubSeq(s, i, Len(s))

\* Url::parse strips leading and trailing spaces of its input.
Trim(s) == SubSeq(s, FirstNotIn(s, {" "}), LastNotIn(s, {" "}))

\* Percent-encoding of the path and fragment sets: a space becomes %20.
Encode(s) == [i \in 1..Len(s) |-> IF s[i] = " " THEN "%20" ELSE s[i]]

\* ------------------------------------------------------------------------
\* reqwest::Url
\* ------------------------------------------------------------------------
SpecialSchemes == {<<"https">>}

ParseError == [ok |-> FALSE, scheme |-> <<>>, has_host |-> FALSE,
               host |-> <<>>, path |-> <<>>, has_fragment |-> FALSE,
               fragment |-> <<>>]

\* Host and port of an authority: a non-empty run of host characters,
\* optionally followed by ":" and an empty port.  ok is FALSE for an empty
\* host, a forbidden host character or a port that is not a number.
ParseAuthority(auth) ==
    LET h == FirstNotIn(auth, Name)
    IN  [ok   |-> h > 1 /\ From(auth, h) \in {<<>>, <<":">>},
         host |-> SubSeq(auth, 1, h - 1)]

\* Path and fragment of the text that follows the authority.
ParseTail(scheme, has_host, host, after, special) ==
    LET f    == FirstIn(after, {"#"})
        path == SubSeq(after, 1, f - 1)
    IN  [ok           |-> TRUE,
         scheme       |-> scheme,
         has_host     |-> has_host,
         host         |-> host,
         path         |-> IF special /\ path = <<>> THEN <<"/">>
                          ELSE IF has_host THEN Encode(path) ELSE path,
         has_fragment |-> f <= Len(after),
         fragment     |-> Encode(From(after, f + 1))]

\* Url::parse of a special scheme: any number of slashes, then an authority
\* that must hold a host.
ParseSpecial(scheme, rest) ==
    LET r    == From(rest, FirstNotIn(rest, {"/"}))
        e    == FirstIn(r, {"/", "#"})
        auth == ParseAuthority(SubSeq(r, 1, e - 1))
    IN  IF auth.ok THEN ParseTail(scheme, TRUE, auth.host, From(r, e), TRUE)
        ELSE ParseError

\* Url::parse of any other scheme: an authority only after "//", and the
\* host may be absent.
ParseNotSpecial(scheme, rest) ==
    IF Len(rest) >= 2 /\ rest[1] = "/" /\ rest[2] = "/"
    THEN LET r    == From(rest, 3)
             e    == FirstIn(r, {"/", "#"})
             a    == SubSeq(r, 1, e - 1)
             auth == ParseAuthority(a)
         IN  IF a = <<>> THEN ParseTail(scheme, FALSE, <<>>, rest, FALSE)
             ELSE IF auth.ok
                  THEN ParseTail(scheme, TRUE, auth.host, From(r, e), FALSE)
                  ELSE ParseError
    ELSE ParseTail(scheme, FALSE, <<>>, rest, FALSE)

\* Url::parse(input): Ok(url) as a record with ok = TRUE, Err(_) as
\* ParseError.  Without a scheme the input is a relative reference, which
\* has no base here and is an error.
Url_parse(input) ==
    LET s == Trim(input)
        k == FirstNotIn(s, Name)
    IN  IF k >= 2 /\ k <= Len(s) /\ s[k] = ":"
        THEN LET scheme == SubSeq(s, 1, k - 1)
             IN  IF scheme \in SpecialSchemes
                 THEN ParseSpecial(scheme, From(s, k + 1))
                 ELSE ParseNotSpecial(scheme, From(s, k + 1))
        ELSE ParseError

\* Url::to_string: the serialization of a parsed URL.
to_string(u) ==
    u.scheme \o <<":">>
      \o (IF u.has_host THEN <<"/", "/">> \o u.host ELSE <<>>)
      \o u.path
      \o (IF u.has_fragment THEN <<"#">> \o u.fragment ELSE <<>>)

\* Url::domain: the host when it is a domain name.  Every host of this
\* model is a domain name; a URL without a host has no domain.
has_domain(u) == u.ok /\ u.has_host

\* ------------------------------------------------------------------------
\* normalize_url
\* ------------------------------------------------------------------------
None == [tag |-> "None", val |-> <<>>]
Some(s) == [tag |-> "Some", val |-> s]
\* A failed unwrap(): the thread panics.
Panic == [tag |-> "Panic", val |-> <<>>]

\* normalize_url without the early return for anchors.
normalize_url_keeps_anchor(url, path) ==
    LET base_url == Url_parse(url)
        href     == Url_parse(path)
    IN  IF ~base_url.ok THEN Panic
        ELSE IF href.ok
             THEN IF href.has_host /\ href.host = base_url.host
                  THEN Some(to_string(href))
                  ELSE None
        ELSE IF ~has_domain(base_url) THEN Panic
        ELSE IF starts_with(path, "/")
             THEN Some(base_url.scheme \o <<":", "/", "/">>
                         \o base_url.host \o path)
             ELSE Some(base_url.scheme \o <<":", "/", "/">>
                         \o base_url.host \o <<"/">> \o path)

\* normalize_url accepting an absolute href of any host.
normalize_url_any_host(url, path) ==
    IF starts_with(path, "#") THEN None
    ELSE LET base_url == Url_parse(url)
             href     == Url_parse(path)
         IN  IF ~base_url.ok THEN Panic
             ELSE IF href.ok
                  THEN IF href.has_host THEN Some(to_string(href)) ELSE None
             ELSE IF ~has_domain(base_url) THEN Panic
             ELSE IF starts_with(path, "/")
                  THEN Some(base_url.scheme \o <<":", "/", "/">>
                              \o base_url.host \o path)
                  ELSE Some(base_url.scheme \o <<":", "/", "/">>
                              \o base_url.host \o <<"/">> \o path)

\* normalize_url joining a relative href to the whole base URL.
normalize_url_joins_page(url, path) ==
    IF starts_with(path, "#") THEN None
    ELSE LET base_url == Url_parse(url)
             href     == Url_parse(path)
         IN  IF ~base_url.ok THEN Panic
             ELSE IF href.ok
                  THEN IF href.has_host /\ href.host = base_url.host
                       THEN Some(to_string(href))
                       ELSE None
             ELSE IF ~has_domain(base_url) THEN Panic
             ELSE IF starts_with(path, "/")
                  THEN Some(base_url.scheme \o <<":", "/", "/">>
                              \o base_url.host \o path)
                  ELSE Some(url \o <<"/">> \o path)

normalize_url(url, path) ==
    IF starts_with(path, "#") THEN None
    ELSE LET base_url == Url_parse(url)
             href     == Url_parse(path)
         IN  IF ~base_url.ok THEN Panic
             ELSE IF href.ok
                  THEN IF href.has_host /\ href.host = base_url.host
                       THEN Some(to_string(href))
                       ELSE None
             ELSE IF ~has_domain(base_url) THEN Panic
             ELSE IF starts_with(path, "/")
                  THEN Some(base_url.scheme \o <<":", "/", "/">>
                              \o base_url.host \o path)
                  ELSE Some(base_url.scheme \o <<":", "/", "/">>
                              \o base_url.host \o <<"/">> \o path)

\* ------------------------------------------------------------------------
\* get_links_from_raw_html
\* ------------------------------------------------------------------------
\* A document is the sequence of the href values of its a[href] elements,
\* in document order: what Html::parse_document and the selector yield.
\* The result is Some(set of links), or Panic when an unwrap() inside
\* normalize_url fails for some element.
\* get_links_from_raw_html keeping the href that normalize_url turns down.
get_links_from_raw_html_keeps_href(url, html) ==
    LET results == {IF normalize_url(url, html[i]) = None THEN Some(html[i])
                    ELSE normalize_url(url, html[i]) : i \in 1..Len(html)}
    IN  IF Panic \in results THEN Panic
        ELSE Some({r.val : r \in {x \in results : x.tag = "Some"}})

get_links_from_raw_html(url, html) ==
    LET results == {normalize_url(url, html[i]) : i \in 1..Len(html)}
    IN  IF Panic \in results THEN Panic
        ELSE Some({r.val : r \in {x \in results : x.tag = "Some"}})

\* ------------------------------------------------------------------------
\* format_url
\* ------------------------------------------------------------------------
\* std::process::exit(1) after the message.
Exit1 == [tag |-> "Exit1", val |-> <<>>]

\* format_url taking a seed that does not parse for a host name.
format_url_lenient(url) ==
    LET parsed == Url_parse(url)
    IN  IF ~parsed.ok THEN Some(<<"https", ":", "/", "/">> \o url \o <<"/">>)
        ELSE IF ~has_domain(parsed) THEN Panic
        ELSE Some(parsed.scheme \o <<":", "/", "/">> \o parsed.host \o <<"/">>)

format_url(url) ==
    LET parsed == Url_parse(url)
    IN  IF ~parsed.ok THEN Exit1
        ELSE IF ~has_domain(parsed) THEN Panic
        ELSE Some(parsed.scheme \o <<":", "/", "/">> \o parsed.host \o <<"/">>)

\* ------------------------------------------------------------------------
\* check_url
\* ------------------------------------------------------------------------
StatusOK == 200

\* What reqwest::get and response.text() give: Err(_), or a status and a body.
TransportError == [err |-> TRUE, status |-> 0, html |-> <<>>]
Response(status, html) == [err |-> FALSE, status |-> status, html |-> html]

is_ok(status) == status = StatusOK

\* Err(e) is passed on by "?"; otherwise (status, status == 200, text).
check_url(resp) ==
    IF resp.err THEN [err |-> TRUE, status |-> 0, is_ok |-> FALSE, html |-> <<>>]
    ELSE [err |-> FALSE, status |-> resp.status, is_ok |-> is_ok(resp.status),
          html |-> resp.html]

\* ------------------------------------------------------------------------
\* Inputs
\* ------------------------------------------------------------------------
Root == <<"https", ":", "/", "/", "a.test", "/">>

\* Command-line arguments: a valid seed, one without a scheme, one with an
\* empty host, one that parses but has no domain.
Seeds == { <<"https", ":", "/", "/", "a.test", "/", "b">>,
           <<"a.test">>,
           <<"https", ":", "/", "/">>,
           <<"mailto", ":", "b">> }

\* The href values that occur in fetched documents.
CrawlHrefs == << <<"/", "b">>,
                 <<"c">>,
                 <<"https", ":", "/", "/", "a.test", "/", "d">>,
                 <<"https", ":", "/", "/", "o.test", "/", "b">> >>

\* The i-th to last of CrawlHrefs, at most n of them, in order.
RECURSIVE Documents(_, _)
Documents(i, n) ==
    IF i > Len(CrawlHrefs) \/ n = 0 THEN {<<>>}
    ELSE Documents(i + 1, n)
           \cup {<<CrawlHrefs[i]>> \o d : d \in Documents(i + 1, n - 1)}

Statuses == {StatusOK, 404}

Responses ==
    {TransportError}
      \cup {Response(st, d) : st \in Statuses, d \in Documents(1, MaxLinks)}

\* ------------------------------------------------------------------------
\* main
\* ------------------------------------------------------------------------
VARIABLES
    pc,           \* where main is: Idle, for, Done, Exit1, Failed, Panicked
    arg,          \* args.url
    visited,      \* HashSet visited
    broken_link,  \* HashSet broken_link
    to_visit,     \* HashSet to_visit
    drain,        \* what to_visit.clone().drain() has not yet yielded
    fetches,      \* every call of check_url so far: its url, its result,
                  \* what get_links_from_raw_html made of the document, and
                  \* the round it was made in
    rounds,       \* how often the for loop was entered
    stdout,       \* the lines printed
    exit_code,    \* the process's exit status, -1 while it runs
    finished,     \* visited and broken_link of the runs of main that ended
                  \* before this one
    n_url, n_path, n_result   \* one call of normalize_url on its own

crawl_vars == <<pc, arg, visited, broken_link, to_visit, drain, fetches,
                rounds, stdout, exit_code, finished>>
norm_vars == <<n_url, n_path, n_result>>
vars == <<crawl_vars, norm_vars>>

Pending == [tag |-> "Pending", val |-> <<>>]

Init ==
    /\ pc = "Idle"
    /\ arg = <<>>
    /\ visited = {}
    /\ broken_link = {}
    /\ to_visit = {}
    /\ drain = {}
    /\ fetches = <<>>
    /\ rounds = 0
    /\ stdout = <<>>
    /\ exit_code = -1
    /\ finished = <<>>
    /\ n_url = <<>> /\ n_path = <<>> /\ n_result = Pending

\* Lines 76-90: parse the arguments, format the seed, create the sets, put
\* the seed in to_visit and enter the loops: to_visit is not empty and the
\* for loop takes a copy of it.
Start(a) ==
    /\ pc = "Idle"
    /\ arg' = a
    /\ LET url == format_url(a)
       IN  /\ pc' = CASE url.tag = "Exit1" -> "Exit1"
                      [] url.tag = "Panic" -> "Panicked"
                      [] OTHER -> "for"
           /\ exit_code' = CASE url.tag = "Exit1" -> 1
                             [] url.tag = "Panic" -> 101
                             [] OTHER -> -1
           /\ to_visit' = IF url.tag = "Some" THEN {url.val} ELSE {}
           /\ drain' = to_visit'
           /\ rounds' = IF url.tag = "Some" THEN 1 ELSE 0
           /\ stdout' = IF url.tag = "Some"
                        THEN <<[line |-> "starting", url |-> url.val]>>
                        ELSE IF url.tag = "Exit1"
                        THEN <<[line |-> "invalid", url |-> a]>>
                        ELSE <<>>
    /\ UNCHANGED <<visited, broken_link, fetches, finished, norm_vars>>

\* new_links without the difference with visited.
new_links_keeps_visited(found, vis) == found

\* Lines 95-98: the links of the document that are not yet visited.
new_links(found, vis) == found \ vis

\* next_to_visit adding the links to what to_visit holds.
next_to_visit_keeps_old(old, links) == old \cup links

\* Line 110: what the iteration leaves in to_visit.
next_to_visit(old, links) == links

\* next_visited leaving the url out.
next_visited_forgets(vis, url) == vis

\* Line 93: the url is recorded as visited.
next_visited(vis, url) == vis \cup {url}

\* rest_of_round taking the links of the page into the round.
rest_of_round_takes_links(left, url, links) == (left \ {url}) \cup links

\* Line 90: drain() yields every URL of the copy once; the links found
\* meanwhile go to to_visit, not to the copy.
rest_of_round(left, url, links) == left \ {url}

\* next_broken recording the url whatever is_ok is.
next_broken_always(broken, url, ok) == broken \cup {url}

\* next_broken starting the set again at every broken url.
next_broken_resets(broken, url, ok) == IF ~ok THEN {url} ELSE broken

\* Lines 100-103: the url is recorded as broken unless is_ok.
next_broken(broken, url, ok) == IF ~ok THEN broken \cup {url} ELSE broken

\* Lines 101, 104: the line printed for the url.
observation(url, r) ==
    [line |-> IF r.is_ok THEN "ok" ELSE "broken", url |-> url,
     status |-> r.status]

\* Lines 114-121: the summary.
summary(vis, broken) ==
    [line |-> "done", visited |-> Cardinality(vis), broken |-> broken]

\* Lines 93-111 and what follows the last iteration, for the url taken from
\* the copy, r the result of check_url and got that of
\* get_links_from_raw_html.  After the last URL of the copy the while
\* condition is evaluated (line 89): the for loop is entered again on a copy
\* of to_visit, or the summary is printed and main returns Ok(()) (lines
\* 114-123).
Iterate(url, resp, r, got) ==
    LET vis   == next_visited(visited, url)
        found == IF got.tag = "Some" THEN got.val ELSE {}
        links == new_links(found, vis)
        next  == next_to_visit(to_visit, links)
        bad   == next_broken(broken_link, url, r.is_ok)
        left  == rest_of_round(drain, url, links)
        out   == Append(stdout, observation(url, r))
    IN  /\ fetches' = Append(fetches,
              [url |-> url, resp |-> resp, found |-> found,
               round |-> rounds])
        /\ visited' = vis
        /\ IF got.tag = "Panic"
           THEN /\ pc' = "Panicked"
                /\ exit_code' = 101
                /\ UNCHANGED <<broken_link, to_visit, drain, rounds, stdout>>
           ELSE /\ broken_link' = bad
                /\ to_visit' = next
                /\ IF left # {}
                   THEN /\ pc' = "for"
                        /\ drain' = left
                        /\ stdout' = out
                        /\ UNCHANGED <<rounds, exit_code>>
                   ELSE IF next # {}
                   THEN /\ pc' = "for"
                        /\ drain' = next
                        /\ rounds' = rounds + 1
                        /\ stdout' = out
                        /\ UNCHANGED exit_code
                   ELSE /\ pc' = "Done"
                        /\ drain' = {}
                        /\ stdout' = Append(out, summary(vis, bad))
                        /\ exit_code' = 0
                        /\ UNCHANGED rounds

\* Lines 90-111, check_url returning Ok: one iteration of the for loop.
ForBody(url, resp) ==
    /\ pc = "for"
    /\ url \in drain
    /\ ~resp.err
    /\ Iterate(url, resp, check_url(resp),
               get_links_from_raw_html(url, check_url(resp).html))
    /\ UNCHANGED <<arg, finished, norm_vars>>

\* Line 91, check_url returning Err: "?" returns it from main, and the
\* process ends with status 1.
ForBodyErr(url, resp) ==
    /\ pc = "for"
    /\ url \in drain
    /\ resp.err
    /\ check_url(resp).err
    /\ fetches' = Append(fetches, [url |-> url, resp |-> resp, found |-> {},
                                    round |-> rounds])
    /\ pc' = "Failed"
    /\ exit_code' = 1
    /\ UNCHANGED <<arg, visited, broken_link, to_visit, drain, rounds, stdout,
                   finished, norm_vars>>

Next ==
    \/ \E a \in Seeds : Start(a)
    \/ \E url \in drain, resp \in Responses : ForBody(url, resp)
    \/ \E url \in drain : ForBodyErr(url, TransportError)

Spec == Init /\ [][Next]_vars

\* ------------------------------------------------------------------------
\* main run twice on the same host
\* ------------------------------------------------------------------------
\* The answers of a host that is up: a status and a document.
OrderResponses == {r \in Responses : ~r.err}

\* The host answers a URL it has answered before as it did then.
SameAnswer(url, resp) ==
    \A i \in DOMAIN fetches : fetches[i].url = url => fetches[i].resp = resp

\* Lines 76-90 once more: main has returned, and the program is started
\* again, once, with the same argument.  Its sets are new and empty; the
\* host is the same, and so is what it has answered so far.
Again ==
    /\ pc = "Done"
    /\ finished = <<>>
    /\ finished' = Append(finished,
          [visited |-> visited, broken_link |-> broken_link])
    /\ pc' = "for"
    /\ exit_code' = -1
    /\ visited' = {}
    /\ broken_link' = {}
    /\ to_visit' = {format_url(arg).val}
    /\ drain' = to_visit'
    /\ rounds' = 1
    /\ stdout' = <<[line |-> "starting", url |-> format_url(arg).val]>>
    /\ UNCHANGED <<arg, fetches, norm_vars>>

NextOrder ==
    \/ \E a \in Seeds : Start(a)
    \/ \E url \in drain, resp \in OrderResponses :
          SameAnswer(url, resp) /\ ForBody(url, resp)
    \/ Again

SpecOrder == Init /\ [][NextOrder]_vars

\* ------------------------------------------------------------------------
\* normalize_url on its own: one call on inputs drawn from bounded sets
\* ------------------------------------------------------------------------
Chars == {"https", "mailto", "a.test", "o.test", "b", ":", "/", "#", " "}

RECURSIVE Texts(_)
Texts(n) ==
    IF n = 0 THEN {<<>>}
    ELSE Texts(n - 1)
           \cup {Append(t, c) : t \in {x \in Texts(n - 1) : Len(x) = n - 1},
                                c \in Chars}

\* An href is one of a few openings followed by any text of MaxTail lexemes.
Heads == { <<>>,
           <<"https", ":", "/", "/">>,
           <<"https", ":", "/", "/", "a.test">>,
           <<"mailto", ":", "/", "/", "a.test">> }

Hrefs == {h \o t : h \in Heads, t \in Texts(MaxTail)}

\* Base URLs are URLs of pages: the seed, pages below it, a page of another
\* host and a page reached by a link of another scheme.
Bases == { Root,
           <<"https", ":", "/", "/", "a.test", "/", "b">>,
           <<"https", ":", "/", "/", "a.test", "/", "b", "/", "c">>,
           <<"https", ":", "/", "/", "o.test", "/", "b">>,
           <<"mailto", ":", "/", "/", "a.test", "/", "b">> }

InitNorm ==
    /\ pc = "Idle"
    /\ arg = <<>>
    /\ visited = {}
    /\ broken_link = {}
    /\ to_visit = {}
    /\ drain = {}
    /\ fetches = <<>>
    /\ rounds = 0
    /\ stdout = <<>>
    /\ exit_code = -1
    /\ finished = <<>>
    /\ n_url \in Bases
    /\ n_path \in Hrefs
    /\ n_result = Pending

Normalize ==
    /\ n_result = Pending
    /\ n_result' = normalize_url(n_url, n_path)
    /\ UNCHANGED <<n_url, n_path, crawl_vars>>

NextNorm == Normalize

SpecNorm == InitNorm /\ [][NextNorm]_vars

\* ------------------------------------------------------------------------
\* What a run has observed
\* ------------------------------------------------------------------------
Terminal == {"Done", "Exit1", "Failed", "Panicked"}

FetchedUrls == {fetches[i].url : i \in DOMAIN fetches}

\* The first check_url of u.
FetchOf(u) ==
    LET I == {i \in DOMAIN fetches : fetches[i].url = u}
    IN  fetches[CHOOSE i \in I : \A j \in I : i <= j]

ResultOf(u) == FetchOf(u).resp

Answered(u) == u \in FetchedUrls /\ ~ResultOf(u).err

\* The same-host links of the document fetched at u.
LinksOf(u) == IF Answered(u) THEN FetchOf(u).found ELSE {}

\* The seed in scheme://domain/ form.
CanonicalSeed == format_url(arg).val

Running == pc \in {"for", "Done", "Failed"}

Is200(u) == Answered(u) /\ ResultOf(u).status = StatusOK

RECURSIVE Closure200(_, _)
\* The URLs reachable from those of done and todo by links of pages that
\* returned 200, the links of the pages of done being in done or todo.
Closure200(done, todo) ==
    IF todo = {} THEN done
    ELSE LET seen == done \cup todo
             new  == UNION {LinksOf(u) : u \in {x \in todo : Is200(x)}}
         IN  Closure200(seen, new \ seen)

RECURSIVE Closure(_, _)
\* The same by links of pages of any status.
Closure(done, todo) ==
    IF todo = {} THEN done
    ELSE LET seen == done \cup todo
             new  == UNION {LinksOf(u) : u \in todo}
         IN  Closure(seen, new \ seen)

\* Reachable from the seed by links of pages that returned 200.
Reachable200 == Closure200({}, {CanonicalSeed})

\* Reachable from the seed by links of pages.
Reachable == Closure({}, {CanonicalSeed})

\* Two parsed URLs have a host, and the same.
SameHost(u, v) ==
    u.ok /\ u.has_host /\ v.ok /\ v.has_host /\ u.host = v.host

\* ------------------------------------------------------------------------
\* Claims
\* ------------------------------------------------------------------------

\* C1: check_url is called at most once per URL, and every URL the current
\* round has still to fetch is not in visited.
C1_FetchedAtMostOnce ==
    /\ \A i, j \in DOMAIN fetches : fetches[i].url = fetches[j].url => i = j
    /\ pc = "for" => drain \cap visited = {}

\* A finished run in which one page linked to itself and two pages linked
\* to the same URL.
C1_Witness ==
    /\ pc = "Done"
    /\ \E u \in FetchedUrls : u \in LinksOf(u)
    /\ \E u, v \in FetchedUrls : u # v /\ LinksOf(u) \cap LinksOf(v) # {}

\* C2: at Done, visited holds every URL reachable from the seed by links of
\* pages that returned 200.
C2_ReachableAllVisited ==
    pc = "Done" => Reachable200 \subseteq visited

\* The rounds so far are at most the URLs of R, and every URL the current
\* round fetches is a URL of R that was not visited before.
RoundsWithin(R) ==
    /\ rounds <= Cardinality(R)
    /\ rounds <= Cardinality(visited \cup drain)
    /\ visited \cup drain \subseteq R
    /\ pc = "for" => drain # {} /\ drain \cap visited = {}

\* The URLs the documents of the host can link to, with the seed.
HostUrls ==
    {Root} \cup get_links_from_raw_html(Root, CrawlHrefs).val

\* What is left to do: the URLs of the host not yet visited, then the
\* steps main has left without a fetch.
Variant ==
    2 * Cardinality(HostUrls \ visited)
      + (CASE pc = "Idle" -> 2 [] pc = "for" -> 1 [] OTHER -> 0)

\* C3: the for loop is entered at most once per URL reachable from the
\* seed, and every URL a round fetches is new: the round's URLs are
\* reachable, there is one left while the round lasts, and none of those
\* left is in visited.  The loops end: every step of main lowers Variant,
\* which is a natural number.
C3_RoundsAtMostReachable ==
    /\ [](Running => RoundsWithin(Reachable))
    /\ [](visited \subseteq HostUrls)
    /\ [][Variant' < Variant]_vars

\* A finished run of four rounds over four reachable URLs, one page of
\* which links to itself.
C3_Witness ==
    /\ pc = "Done"
    /\ rounds = 4
    /\ Cardinality(Reachable) = 4
    /\ \E u \in FetchedUrls : u \in LinksOf(u)

\* C4: a URL whose fetch failed in the transport is in visited and in
\* broken_link; when it is the seed, the run ends with both equal to {seed}.
C4_TransportFailureIsBroken ==
    \A i \in DOMAIN fetches :
        fetches[i].resp.err =>
          /\ fetches[i].url \in visited
          /\ fetches[i].url \in broken_link
          /\ (i = 1 /\ pc \in Terminal) =>
                visited = {CanonicalSeed} /\ broken_link = {CanonicalSeed}

\* C5: a transport failure does not end the run: the process does not exit
\* with an error after it.
C5_TransportFailureDoesNotAbort ==
    (\E i \in DOMAIN fetches : fetches[i].resp.err) =>
        pc # "Failed" /\ exit_code \in {-1, 0}

\* Every URL of S has the host of the parsed URL seed.
AllOnHost(S, seed) == \A u \in S : SameHost(Url_parse(u), seed)

\* C6: every URL of to_visit, of the round, of visited and of broken_link,
\* and every URL given to check_url, has the host of the seed.
C6_SameHostOnly ==
    Running =>
      AllOnHost(to_visit \cup drain \cup visited \cup broken_link \cup FetchedUrls,
                Url_parse(CanonicalSeed))

\* A finished run that fetched a page with status 200 whose document links
\* to https://o.test/b, and followed another link of that page.
C6_Witness ==
    /\ pc = "Done"
    /\ \E u \in FetchedUrls :
          /\ Is200(u)
          /\ \E i \in DOMAIN ResultOf(u).html :
                /\ Url_parse(ResultOf(u).html[i]).ok
                /\ ~SameHost(Url_parse(ResultOf(u).html[i]),
                             Url_parse(CanonicalSeed))
          /\ LinksOf(u) \cap FetchedUrls # {}

\* The part of C7 about broken_link alone: it holds the fetched URLs whose
\* status was not 200.
BrokenIsNot200 ==
    /\ \A u \in FetchedUrls :
          (Answered(u) /\ u \in visited) =>
              (u \in broken_link <=> ResultOf(u).status # StatusOK)
    /\ pc = "Done" =>
          broken_link = {u \in visited : ResultOf(u).status # StatusOK}

\* C7: broken_link holds exactly the fetched URLs whose status was not 200,
\* and when the seed returns 200 with the one link /b and /b returns 404,
\* the run ends with visited = {seed, /b} and broken_link = {/b}.
C7_BrokenExactlyNot200 ==
    /\ BrokenIsNot200
    /\ LET b == Root \o <<"b">>
       IN  ( /\ pc = "Done"
             /\ Is200(CanonicalSeed)
             /\ ResultOf(CanonicalSeed).html = << <<"/", "b">> >>
             /\ Answered(b) /\ ResultOf(b).status = 404 )
           => visited = {CanonicalSeed, b} /\ broken_link = {b}

\* C8: a seed that does not parse ends the process with a non-zero status
\* before any set is created: nothing is fetched, no round is run.
C8_InvalidSeedExits ==
    (pc # "Idle" /\ ~Url_parse(arg).ok) =>
        /\ pc = "Exit1"
        /\ exit_code # 0 /\ exit_code # -1
        /\ fetches = <<>> /\ rounds = 0
        /\ visited = {} /\ to_visit = {} /\ drain = {}

\* The run was started on "https://", which has no host.
C8_Witness ==
    pc = "Exit1" /\ arg = <<"https", ":", "/", "/">> /\ exit_code = 1

\* C9: normalize_url returns None for an href that begins with "#" and for
\* an href that parses and has no host or another host than the base; for
\* an href that parses it returns a URL only if the hosts are equal.
C9_OutOfScopeIsNone ==
    n_result # Pending =>
      LET href == Url_parse(n_path)
          base == Url_parse(n_url)
      IN  /\ starts_with(n_path, "#") => n_result = None
          /\ (href.ok /\ (~href.has_host \/ href.host # base.host))
                => n_result = None
          /\ (href.ok /\ n_result.tag = "Some")
                => href.has_host /\ href.host = base.host

\* An href beginning with "#" that the URL parser would have taken for a
\* path had it been joined, normalized to None.
C9_Witness ==
    /\ n_result = None
    /\ starts_with(n_path, "#")
    /\ Len(n_path) >= 2
    /\ ~Url_parse(n_path).ok

\* C10: for an href that does not parse and does not begin with "#",
\* normalize_url returns scheme://domain + href when href begins with "/"
\* and scheme://domain/ + href otherwise, whatever the path of the base.
C10_FlatJoin ==
    (n_result # Pending /\ ~Url_parse(n_path).ok /\ ~starts_with(n_path, "#")) =>
      LET base   == Url_parse(n_url)
          origin == base.scheme \o <<":", "/", "/">> \o base.host
      IN  /\ n_result = IF starts_with(n_path, "/")
                        THEN Some(origin \o n_path)
                        ELSE Some(origin \o <<"/">> \o n_path)
          /\ \A other \in Bases :
                (Url_parse(other).scheme = base.scheme
                   /\ Url_parse(other).host = base.host)
                => normalize_url(other, n_path) = n_result

\* A relative href without a leading "/", joined from a page two levels
\* below the root.
C10_Witness ==
    /\ n_result.tag = "Some"
    /\ ~Url_parse(n_path).ok
    /\ n_path # <<>> /\ ~starts_with(n_path, "/")
    /\ n_url = <<"https", ":", "/", "/", "a.test", "/", "b", "/", "c">>
    /\ n_result.val = Root \o n_path

\* A URL string in the form Url::to_string gives it.
Canonical(u) == Url_parse(u).ok /\ to_string(Url_parse(u)) = u

\* The part of C11 about canonical hrefs alone: a canonical href of the
\* host of the base is returned as it is.
CanonicalIsKept ==
    (n_result # Pending /\ Canonical(n_path)
       /\ SameHost(Url_parse(n_path), Url_parse(n_url)))
    => n_result = Some(n_path)

\* C11: normalize_url returns a canonical URL of the base's host unchanged,
\* and hence returns its own result unchanged: normalize(b, h) = u implies
\* normalize(b, u) = u.
C11_NormalizeIdempotent ==
    /\ CanonicalIsKept
    /\ n_result.tag = "Some" => normalize_url(n_url, n_result.val) = n_result

\* The URLs given to check_url in round k.
RoundUrls(k) == {fetches[i].url : i \in {j \in DOMAIN fetches : fetches[j].round = k}}

\* A round has just ended: main is done, or a round after the first has not
\* fetched yet.
RoundEnded ==
    pc = "Done" \/ (pc = "for" /\ rounds >= 2 /\ RoundUrls(rounds) = {})

\* The round that ended last.
LastRound == IF pc = "Done" THEN rounds ELSE rounds - 1

\* The links of the documents of round k that came with status 200.
Found200(k) == UNION {LinksOf(u) : u \in {x \in RoundUrls(k) : Is200(x)}}

\* The part of C12 that every page of the round counts: a link found on a
\* page of the round that returned 200 is in to_visit when the round ends,
\* unless it is visited.
FrontierHoldsEveryPage == RoundEnded => Found200(LastRound) \ visited \subseteq to_visit

\* The part of C12 that nothing else counts: to_visit holds only links found
\* on pages of the round that returned 200.
FrontierHoldsOnlyFound == RoundEnded => to_visit \subseteq Found200(LastRound)

\* C12: when a round ends, to_visit is the union over the URLs of the round
\* that returned 200 of the links of their documents that are not visited,
\* the links of every page of the round, not those of the last page alone.
C12_FrontierIsUnion == FrontierHoldsEveryPage /\ FrontierHoldsOnlyFound

\* C13: the document of a page that did not return 200 is not searched for
\* links: every URL of to_visit, of the round, of visited or given to
\* check_url is the seed or a link of a document that came with status 200.
C13_Non200BodyUnused ==
    Running =>
        \A u \in to_visit \cup drain \cup visited \cup FetchedUrls :
            u = CanonicalSeed \/ \E v \in FetchedUrls : Is200(v) /\ u \in LinksOf(v)

\* The fetch a step makes, when it makes one.
Fetches == Len(fetches') = Len(fetches) + 1
Fetch == fetches'[Len(fetches')]

\* What a step that fetches u does to the round.
RoundStep(u) ==
    /\ pc = "for" /\ u \in drain
    /\ Fetch.round = rounds
    /\ (pc' = "for" /\ rounds' = rounds) => drain # {u} /\ drain' = drain \ {u}
    /\ rounds' # rounds =>
          /\ drain = {u} /\ rounds' = rounds + 1 /\ pc' = "for"
          /\ to_visit' # {} /\ drain' = to_visit'
    /\ (drain = {u} /\ pc' \in {"for", "Done"}) =>
          /\ pc' = "Done" <=> to_visit' = {}
          /\ pc' = "for" <=> rounds' = rounds + 1

\* What holds of the rounds in every state.
RoundInv ==
    /\ pc = "for" => drain # {} /\ drain \cap RoundUrls(rounds) = {}
    /\ (pc = "for" /\ RoundUrls(rounds) = {}) => drain = to_visit
    /\ pc = "Done" => drain = {} /\ to_visit = {}
    /\ \A i \in DOMAIN fetches :
          fetches[i].round >= 2 =>
            \E j \in 1..(i - 1) :
                /\ fetches[j].round = fetches[i].round - 1
                /\ fetches[i].url \in fetches[j].found

\* C15: a round fetches the URLs to_visit held when it started and no
\* other: a fetch takes a URL of the copy and leaves the others, a link
\* found in the round is fetched in a later round, a URL of round k+1 was
\* found in round k, a new round starts when the copy is used up and
\* to_visit is not empty, and main is done, with no further step, when
\* to_visit is empty.
C15_RoundStructure ==
    /\ [][Fetches => RoundStep(Fetch.url)]_vars
    /\ [][pc # "Done"]_vars
    /\ []RoundInv

\* A finished run of three rounds, the second of two URLs, one of which
\* linked to the URL of the third.
C15_Witness ==
    /\ pc = "Done" /\ rounds = 3
    /\ Cardinality(RoundUrls(2)) = 2
    /\ \E u \in RoundUrls(2) : LinksOf(u) \cap RoundUrls(3) # {}

\* C16: no step removes a URL from visited or from broken_link.
C16_OnlyGrow ==
    [][visited \subseteq visited' /\ broken_link \subseteq broken_link']_vars

\* A finished run with three visited URLs, two of them broken.
C16_Witness ==
    pc = "Done" /\ Cardinality(visited) = 3 /\ Cardinality(broken_link) = 2

\* The lines printed for the URLs fetched.
Observations == SelectSeq(stdout, LAMBDA l : l.line \in {"ok", "broken"})

\* The i-th observation is that of the i-th fetch: its URL, its status, and
\* ok exactly for status 200.
ObservationOf(i) ==
    /\ Observations[i].url = fetches[i].url
    /\ ~fetches[i].resp.err
    /\ Observations[i].status = fetches[i].resp.status
    /\ Observations[i].line = "ok" <=> fetches[i].resp.status = StatusOK

\* The part of C17 about the fetches that got a response.
ObservationPerResponse ==
    /\ Len(Observations) = Cardinality({i \in DOMAIN fetches : ~fetches[i].resp.err})
    /\ \A i \in DOMAIN Observations : ObservationOf(i)

\* C17: every call of check_url has its one observation, printed before the
\* next call: in every state there are as many observations as fetches, the
\* i-th for the i-th fetch.
C17_OneObservationPerFetch ==
    /\ Len(Observations) = Len(fetches)
    /\ \A i \in DOMAIN fetches : ObservationOf(i)

\* C18: every URL of broken_link is in visited.
C18_BrokenAreVisited == broken_link \subseteq visited

\* A finished run with a broken URL and a URL that is not broken.
C18_Witness ==
    pc = "Done" /\ broken_link # {} /\ broken_link # visited

\* What normalize_url makes of the hrefs of the document of fetch f.
NormalizedOf(f) ==
    {r.val : r \in {x \in {normalize_url(f.url, f.resp.html[j]) :
                               j \in DOMAIN f.resp.html} : x.tag = "Some"}}

RECURSIVE SoundFrom(_, _)
\* The fetches from the i-th on were of URLs known before them, known being
\* the URLs known before the i-th, and the sets hold URLs known in the end.
\* A fetch makes known what get_links_from_raw_html found in its document.
SoundFrom(i, known) ==
    IF i > Len(fetches) THEN to_visit \cup drain \cup visited \subseteq known
    ELSE /\ fetches[i].url \in known
         /\ SoundFrom(i + 1, known \cup fetches[i].found)

\* C19: every URL of visited, of to_visit and of the round is the seed or
\* was found in a document fetched in this run, every URL given to
\* check_url was so before it was fetched, and what is found in a document
\* is what normalize_url made of one of its hrefs.
C19_OnlyDiscovered ==
    /\ [](Running => SoundFrom(1, {CanonicalSeed}))
    /\ [][Fetches => Fetch.found \subseteq NormalizedOf(Fetch)]_vars

\* A finished run of three fetches, one of a page with an href that
\* normalize_url turned down and with a link that was fetched later.
C19_Witness ==
    /\ pc = "Done" /\ Len(fetches) = 3
    /\ \E i \in DOMAIN fetches :
          /\ Cardinality(NormalizedOf(fetches[i])) < Len(fetches[i].resp.html)
          /\ \E j \in DOMAIN fetches : j > i /\ fetches[j].url \in NormalizedOf(fetches[i])

\* What a step that fetches u does to visited and broken_link.
FrameOf(u, resp) ==
    /\ visited \subseteq visited' /\ visited' \subseteq visited \cup {u}
    /\ ~resp.err => visited' = visited \cup {u}
    /\ broken_link \subseteq broken_link'
    /\ broken_link' \subseteq broken_link \cup {u}
    /\ (~resp.err /\ resp.status = StatusOK) => broken_link' = broken_link

\* C20: the iteration for a URL u adds u to visited and nothing else, adds
\* at most u to broken_link, and nothing when the status is 200; a step
\* that fetches nothing leaves both sets as they are.
C20_Frame ==
    [][IF Fetches THEN FrameOf(Fetch.url, Fetch.resp)
       ELSE UNCHANGED <<visited, broken_link>>]_vars

\* A finished run whose last fetch returned 200 after two other URLs, one
\* of them broken.
C20_Witness ==
    /\ pc = "Done" /\ Len(fetches) = 3
    /\ fetches[3].resp.status = StatusOK
    /\ Cardinality(broken_link) = 1 /\ Cardinality(visited) = 3

\* C14: the order in which the URLs of a round are taken does not matter:
\* two runs of main on the same seed and the same host, which answers every
\* URL in the second run as in the first, end with the same visited and
\* the same broken_link.
C14_OrderIndependent ==
    (pc = "Done" /\ finished # <<>>) =>
        /\ visited = finished[1].visited
        /\ broken_link = finished[1].broken_link

====
